---- MODULE Spec2Model ----
(***************************************************************************)
(* Model of futfw_automation.py: the hourly driver (main), the Analysis    *)
(* Requester (run_futfw_analysis) and the Result Publisher                 *)
(* (send_to_webhook).                                                      *)
(*                                                                         *)
(* Text is a sequence of lexemes.  Punctuation, white space, the back-tick *)
(* and the letters of the "json" tag are single characters; a run of JSON  *)
(* object members ("key":value,"key":value,...) that contains no brace and *)
(* no back-tick is one lexeme (M_full, M_nosig, M_notp); the back-tick     *)
(* character is written BQ.  Indices are 0-based as in Python, so the      *)
(* code's index arithmetic is kept as is.                                  *)
(***************************************************************************)
EXTENDS Integers, Sequences, FiniteSets, TLC

\* ------------------------------------------------------------------------
\* Configuration
\* ------------------------------------------------------------------------
SYMBOLS == <<"MGC1", "MYM1", "MNQ1", "XAUTUSDT.P">>

NumSymbols == Len(SYMBOLS)

\* Longest response, in tokens, that the requester is applied to.
MaxTokens == 4

\* ------------------------------------------------------------------------
\* Python string primitives on lexeme sequences
\* ------------------------------------------------------------------------
SetMin(S) == CHOOSE m \in S : \A k \in S : m <= k

SetMax(S) == CHOOSE m \in S : \A k \in S : m >= k

\* str.find(sub, from): lowest 0-based index >= from where sub occurs, else -1
Find(s, sub, from) ==
    LET hits == { k \in from..(Len(s) - Len(sub)) :
                     SubSeq(s, k + 1, k + Len(sub)) = sub }
    IN  IF hits = {} THEN -1 ELSE SetMin(hits)

\* str.rfind(sub): highest 0-based index where sub occurs, else -1
RFind(s, sub) ==
    LET hits == { k \in 0..(Len(s) - Len(sub)) :
                     SubSeq(s, k + 1, k + Len(sub)) = sub }
    IN  IF hits = {} THEN -1 ELSE SetMax(hits)

\* a slice bound as Python normalises it: negative counts from the end
SliceBound(s, k) ==
    IF k < 0 THEN (IF Len(s) + k < 0 THEN 0 ELSE Len(s) + k)
             ELSE (IF k > Len(s) THEN Len(s) ELSE k)

\* s[a:b]
PySlice(s, a, b) == SubSeq(s, SliceBound(s, a) + 1, SliceBound(s, b))

Whitespace == {" "}

\* str.strip()
Strip(s) ==
    LET keep == { k \in 1..Len(s) : s[k] \notin Whitespace }
    IN  IF keep = {} THEN <<>> ELSE SubSeq(s, SetMin(keep), SetMax(keep))

FENCE == <<"BQ", "BQ", "BQ">>

FENCE_JSON == <<"BQ", "BQ", "BQ", "j", "s", "o", "n">>

\* ------------------------------------------------------------------------
\* JSON objects
\* ------------------------------------------------------------------------
\* a validation list that lost take_profit
required_fields_NoTakeProfit ==
    << "symbol", "trend_1h", "trend_15m", "current_price",
       "entry_price", "stop_loss", "support_levels", "resistance_levels" >>

required_fields ==
    << "symbol", "trend_1h", "trend_15m", "current_price",
       "entry_price", "stop_loss", "take_profit",
       "support_levels", "resistance_levels" >>

\* the keys of the object the prompt asks for
PromptKeys ==
    { "symbol", "trend_1h", "trend_15m", "current_price", "entry_price",
      "stop_loss", "take_profit", "support_levels", "resistance_levels",
      "entry_signal" }

\* the members a member-run lexeme spells out, as the dict json.loads builds
MemberDict(keys, sym) == [ k \in keys |-> IF k = "symbol" THEN sym ELSE "v" ]

Members(lex) ==
    CASE lex = "M_full"  -> MemberDict(PromptKeys, SYMBOLS[1])
      [] lex = "M_nosig" -> MemberDict(PromptKeys \ {"entry_signal"}, SYMBOLS[2])
      [] lex = "M_notp"  -> MemberDict(PromptKeys \ {"take_profit"}, SYMBOLS[1])

MemberLexemes == {"M_full", "M_nosig", "M_notp"}

EmptyDict == MemberDict({}, "v")

\* json.loads: white space, one object, white space, end of input.
\* Returns [ok |-> FALSE] for what raises json.JSONDecodeError.
json_loads(s) ==
    LET t == Strip(s)
        inner == Strip(SubSeq(t, 2, Len(t) - 1))
    IN  IF Len(t) < 2 \/ t[1] # "{" \/ t[Len(t)] # "}"
        THEN [ok |-> FALSE, dict |-> EmptyDict]
        ELSE IF inner = <<>>
        THEN [ok |-> TRUE, dict |-> EmptyDict]
        ELSE IF Len(inner) = 1 /\ inner[1] \in MemberLexemes
        THEN [ok |-> TRUE, dict |-> Members(inner[1])]
        ELSE [ok |-> FALSE, dict |-> EmptyDict]

\* ------------------------------------------------------------------------
\* Console output
\* ------------------------------------------------------------------------
\* one log line: the [symbol] tag, the message, the symbol or field the
\* message interpolates ("" if none) and the numbers it interpolates
Line(tag, message, detail, nums) ==
    [tag |-> tag, message |-> message, detail |-> detail, nums |-> nums]

log_message(message, symbol) == Line(symbol, message, "", <<>>)

\* ------------------------------------------------------------------------
\* Analysis Requester
\* ------------------------------------------------------------------------
\* a fence body that runs to the end of the text when no fence closes it
FenceBody_ToEnd(text, start) ==
    PySlice(text, start,
            IF Find(text, FENCE, start) = -1 THEN Len(text)
            ELSE Find(text, FENCE, start))

\* analysis_text[start:end] with end = analysis_text.find(FENCE, start)
FenceBody(text, start) == PySlice(text, start, Find(text, FENCE, start))

\* "Extract JSON from response (handles markdown code blocks)"
StripFences(text) ==
    IF Find(text, FENCE_JSON, 0) # -1
    THEN Strip(FenceBody(text, Find(text, FENCE_JSON, 0) + 7))
    ELSE IF Find(text, FENCE, 0) # -1
    THEN Strip(FenceBody(text, Find(text, FENCE, 0) + 3))
    ELSE text

start_idx(text) == Find(text, <<"{">>, 0)

end_idx(text) == RFind(text, <<"}">>) + 1

HasBoundaries(text) == start_idx(text) # -1 /\ end_idx(text) # 0

\* the first required field the dict lacks, 0 if none
FirstMissing(dict) ==
    LET missing == { k \in 1..Len(required_fields) :
                        required_fields[k] \notin DOMAIN dict }
    IN  IF missing = {} THEN 0 ELSE SetMin(missing)

Returned(kind, dict, text, json_str, lines) ==
    [kind |-> kind, none |-> kind # "Record", dict |-> dict,
     analysis_text |-> text, json_str |-> json_str, lines |-> lines]

\* reply: [raised |-> the completion call (or reading its content) raised,
\*         content |-> response.choices[0].message.content]
run_futfw_analysis(symbol, reply) ==
    LET starting == <<log_message("Starting analysis...", symbol)>>
        received == starting \o
                    <<log_message("Received response from Perplexity AI", symbol)>>
        text     == StripFences(Strip(reply.content))
        json_str == PySlice(text, start_idx(text), end_idx(text))
        parsed   == json_loads(json_str)
        missing  == FirstMissing(parsed.dict)
    IN  IF reply.raised
        THEN Returned("ServiceCallError", EmptyDict, <<>>, <<>>,
                 starting \o <<log_message("Analysis error", symbol)>>)
        ELSE IF ~HasBoundaries(text)
        THEN Returned("ExtractionError", EmptyDict, text, <<>>,
                 received \o <<log_message("No valid JSON found in response", symbol)>>)
        ELSE IF ~parsed.ok
        THEN Returned("ParseError", EmptyDict, text, json_str,
                 received \o <<log_message("JSON parsing error", symbol)>>)
        ELSE IF missing # 0
        THEN Returned("ValidationError", EmptyDict, text, json_str,
                 received \o <<Line(symbol, "Missing required field",
                                    required_fields[missing], <<>>)>>)
        ELSE Returned("Record", parsed.dict, text, json_str,
                 received \o <<log_message("Analysis completed successfully", symbol)>>)

\* ------------------------------------------------------------------------
\* Result Publisher
\* ------------------------------------------------------------------------
TIMEOUT == 30

StatusCodes == {200, 204, 500}

\* what requests.post can do: answer with a status code, exceed the
\* timeout, or fail in any other way
PostOutcomes ==
    { [kind |-> "response", status_code |-> c] : c \in StatusCodes }
    \cup { [kind |-> "timeout", status_code |-> 0],
           [kind |-> "error", status_code |-> 0] }

\* a publisher that accepts every 2xx status
StatusOk_Any2xx(status_code) == status_code \in 200..299

\* if response.status_code == 200
StatusOk(status_code) == status_code = 200

\* analysis.get('symbol', 'UNKNOWN')
SymbolOf(analysis) ==
    IF "symbol" \in DOMAIN analysis THEN analysis["symbol"] ELSE "UNKNOWN"

\* the request send_to_webhook hands to requests.post
Request(analysis) ==
    [json |-> analysis, timeout |-> TIMEOUT,
     headers |-> {"Content-Type", "x-api-key"}]

send_to_webhook(analysis, outcome) ==
    LET symbol  == SymbolOf(analysis)
        sending == <<log_message("Sending to dashboard...", symbol)>>
    IN  IF outcome.kind = "response" /\ StatusOk(outcome.status_code)
        THEN [ok |-> TRUE, kind |-> "Success",
              lines |-> sending \o
                  <<log_message("Successfully sent to dashboard", symbol)>>]
        ELSE IF outcome.kind = "response"
        THEN [ok |-> FALSE, kind |-> "PublishHTTPError",
              lines |-> sending \o
                  <<Line(symbol, "Webhook error: HTTP", "",
                         <<outcome.status_code>>)>>]
        ELSE IF outcome.kind = "timeout"
        THEN [ok |-> FALSE, kind |-> "PublishTimeoutError",
              lines |-> sending \o
                  <<Line(symbol, "Webhook timeout after seconds", "",
                         <<TIMEOUT>>)>>]
        ELSE [ok |-> FALSE, kind |-> "PublishTransportError",
              lines |-> sending \o <<log_message("Webhook error", symbol)>>]

\* ------------------------------------------------------------------------
\* Inputs
\* ------------------------------------------------------------------------
\* a token is a fence, a brace, a blank, a character of prose, or a JSON
\* object written out in full
Tokens ==
    { FENCE_JSON, FENCE, <<"{">>, <<"}">>, <<" ">>, <<"x">>,
      <<"{", "M_full", "}">>, <<"{", "M_nosig", "}">>, <<"{", "M_notp", "}">> }

RECURSIVE Flatten(_)
Flatten(ts) == IF ts = <<>> THEN <<>> ELSE Head(ts) \o Flatten(Tail(ts))

\* every response of at most MaxTokens tokens
Texts == UNION { { Flatten(ts) : ts \in [1..n -> Tokens] } : n \in 0..MaxTokens }

\* the responses the completion service gives during a run
Responses ==
    { FENCE_JSON \o <<"{", "M_full", "}">> \o FENCE,
      <<"x", "{", "M_nosig", "}", " ">>,
      <<"{", "M_notp", "}">>,
      <<"{", "x", "}">>,
      <<"x">> }

Replies ==
    { [raised |-> FALSE, content |-> t] : t \in Responses }
    \cup { [raised |-> TRUE, content |-> <<>>] }

\* ------------------------------------------------------------------------
\* State
\* ------------------------------------------------------------------------
VARIABLES
    credential,     \* PERPLEXITY_API_KEY: "unset", "empty" or "set"
    pc,             \* where the process is
    idx,            \* 1-based position of the loop in SYMBOLS
    state,          \* per symbol: its state in the driver's state machine
    success_count,
    failure_count,
    analysis,       \* [none, dict]: what run_futfw_analysis returned last
    ret,            \* the last return of run_futfw_analysis, with its locals
    content,        \* the response text of the last completion call
    calls,          \* completion calls made, as indices into SYMBOLS
    posts,          \* requests.post calls made: [symbol index, request]
    published,      \* per symbol: what send_to_webhook returned ("" if never)
    post_outcome,   \* what the last requests.post call did
    log,            \* lines printed
    exit_status     \* -1 while running

vars == << credential, pc, idx, state, success_count, failure_count,
           analysis, ret, content, calls, posts, published, post_outcome,
           log, exit_status >>

None == [none |-> TRUE, dict |-> EmptyDict]

NoReturn == Returned("NotCalled", EmptyDict, <<>>, <<>>, <<>>)

Rule == Line("SYSTEM", "rule", "", <<>>)

InitFields ==
    /\ state = [i \in 1..NumSymbols |-> "Pending"]
    /\ success_count = 0
    /\ failure_count = 0
    /\ analysis = None
    /\ ret = NoReturn
    /\ calls = <<>>
    /\ posts = <<>>
    /\ published = [i \in 1..NumSymbols |-> ""]
    /\ post_outcome = [kind |-> "none", status_code |-> 0]
    /\ log = <<>>
    /\ exit_status = -1

Init ==
    /\ credential \in {"unset", "empty", "set"}
    /\ pc = "import"
    /\ idx = 1
    /\ content = <<>>
    /\ InitFields

\* ------------------------------------------------------------------------
\* Driver
\* ------------------------------------------------------------------------
\* a check that only recognises the empty string
CredentialMissing_EmptyOnly(c) == c = "empty"

\* not os.environ.get('PERPLEXITY_API_KEY')
CredentialMissing(c) == c # "set"

\* a driver that publishes whatever the requester returned
Truthy_Always(a) == TRUE

\* if analysis:
Truthy(a) == ~a.none /\ DOMAIN a.dict # {}

\* a driver that fails the run as soon as one symbol failed
ExitStatus_AnyFailure(failures) == IF failures > 0 THEN 1 ELSE 0

\* if failure_count == len(SYMBOLS): sys.exit(1)
ExitStatus(failures) == IF failures = Len(SYMBOLS) THEN 1 ELSE 0

\* a driver that forgets to count a failure
CountOutcome_SuccessOnly(counts, ok) ==
    IF ok THEN [counts EXCEPT !.success = @ + 1] ELSE counts

\* success_count += 1 / failure_count += 1
CountOutcome(counts, ok) ==
    IF ok THEN [counts EXCEPT !.success = @ + 1]
          ELSE [counts EXCEPT !.failure = @ + 1]

Counts == [success |-> success_count, failure |-> failure_count]

\* a loop that gives up after the symbol it is at
NextSymbol_Break(i) == Len(SYMBOLS) + 1

\* the for loop moves to the next symbol
NextSymbol(i) == i + 1

\* Module import: the client is built from the credential.  With the
\* credential unset the constructor is given api_key=None and, depending on
\* the library's own fallback, either raises (the interpreter then exits
\* with status 1) or builds a client.
ImportRaises ==
    /\ pc = "import"
    /\ credential = "unset"
    /\ pc' = "exited"
    /\ exit_status' = 1
    /\ UNCHANGED << credential, idx, state, success_count, failure_count,
                    analysis, ret, content, calls, posts, published, post_outcome, log >>

ImportOk ==
    /\ pc = "import"
    /\ pc' = "main"
    /\ UNCHANGED << credential, idx, state, success_count, failure_count,
                    analysis, ret, content, calls, posts, published, post_outcome, log,
                    exit_status >>

MainStart ==
    /\ pc = "main"
    /\ LET banner == << Rule, log_message("FUTFW HOURLY ANALYSIS STARTED", "SYSTEM"),
                        Rule >>
       IN  IF CredentialMissing(credential)
           THEN /\ log' = log \o banner \o
                      <<log_message("ERROR: PERPLEXITY_API_KEY environment variable not set",
                                    "SYSTEM")>>
                /\ exit_status' = 1
                /\ pc' = "exited"
                /\ UNCHANGED << success_count, failure_count >>
           ELSE /\ log' = log \o banner
                /\ success_count' = 0
                /\ failure_count' = 0
                /\ pc' = "loop"
                /\ UNCHANGED exit_status
    /\ UNCHANGED << credential, idx, state, analysis, ret, content, calls,
                    posts, published, post_outcome >>

\* the loop takes the next symbol and run_futfw_analysis submits the prompt
BeginAnalysis ==
    /\ pc = "loop"
    /\ idx <= Len(SYMBOLS)
    /\ log' = log \o << Line("SYSTEM", "Processing", SYMBOLS[idx], <<>>),
                        log_message("Starting analysis...", SYMBOLS[idx]) >>
    /\ calls' = Append(calls, idx)
    /\ state' = [state EXCEPT ![idx] = "Analyzing"]
    /\ pc' = "analyzing"
    /\ UNCHANGED << credential, idx, success_count, failure_count, analysis,
                    ret, content, posts, published, post_outcome, exit_status >>

\* the completion call returns or raises; the rest of run_futfw_analysis
\* runs, and main branches on its result
CompleteAnalysis ==
    /\ pc = "analyzing"
    /\ \E reply \in Replies :
          LET r == run_futfw_analysis(SYMBOLS[idx], reply)
              a == [none |-> r.none, dict |-> r.dict]
          IN  /\ content' = reply.content
              /\ ret' = r
              /\ analysis' = a
              /\ IF Truthy(a)
                 THEN /\ log' = log \o Tail(r.lines)
                      /\ state' = [state EXCEPT ![idx] = "Analyzed"]
                      /\ pc' = "analyzed"
                      /\ UNCHANGED << idx, failure_count >>
                 ELSE /\ log' = log \o Tail(r.lines) \o
                             << log_message("Skipping - analysis failed", SYMBOLS[idx]),
                                Rule >>
                      /\ state' = [state EXCEPT ![idx] = "AnalysisFailed"]
                      /\ failure_count' = CountOutcome(Counts, FALSE).failure
                      /\ idx' = NextSymbol(idx)
                      /\ pc' = "loop"
    /\ UNCHANGED << credential, success_count, calls, posts, published,
                    post_outcome, exit_status >>

\* send_to_webhook up to and including the call of requests.post
BeginPublish ==
    /\ pc = "analyzed"
    /\ log' = Append(log, log_message("Sending to dashboard...",
                                      SymbolOf(analysis.dict)))
    /\ posts' = Append(posts, [symbol |-> idx, request |-> Request(analysis.dict)])
    /\ state' = [state EXCEPT ![idx] = "Publishing"]
    /\ pc' = "publishing"
    /\ UNCHANGED << credential, idx, success_count, failure_count, analysis,
                    ret, content, calls, published, post_outcome, exit_status >>

\* requests.post returns or raises; send_to_webhook returns and main counts
CompletePublish ==
    /\ pc = "publishing"
    /\ \E outcome \in PostOutcomes :
          LET r == send_to_webhook(analysis.dict, outcome)
          IN  /\ log' = log \o Tail(r.lines) \o <<Rule>>
              /\ post_outcome' = outcome
              /\ published' = [published EXCEPT ![idx] = r.kind]
              /\ success_count' = CountOutcome(Counts, r.ok).success
              /\ failure_count' = CountOutcome(Counts, r.ok).failure
              /\ state' = [state EXCEPT ![idx] =
                               IF r.ok THEN "Published" ELSE "PublishFailed"]
    /\ idx' = NextSymbol(idx)
    /\ pc' = "loop"
    /\ UNCHANGED << credential, analysis, ret, content, calls, posts,
                    exit_status >>

\* the loop is over: summary and exit status
Finish ==
    /\ pc = "loop"
    /\ idx > Len(SYMBOLS)
    /\ log' = log \o << Rule,
                        Line("SYSTEM", "Analysis Complete", "",
                             <<success_count, Len(SYMBOLS),
                               failure_count, Len(SYMBOLS)>>),
                        Rule >>
    /\ exit_status' = ExitStatus(failure_count)
    /\ pc' = "exited"
    /\ UNCHANGED << credential, idx, state, success_count, failure_count,
                    analysis, ret, content, calls, posts, published, post_outcome >>

Next ==
    \/ ImportRaises
    \/ ImportOk
    \/ MainStart
    \/ BeginAnalysis
    \/ CompleteAnalysis
    \/ BeginPublish
    \/ CompletePublish
    \/ Finish

Spec == Init /\ [][Next]_vars

\* every call in the program blocks for a bounded time, so a step that is
\* possible is eventually taken
FairSpec == Spec /\ WF_vars(Next)

\* ------------------------------------------------------------------------
\* The requester applied to every bounded response
\* ------------------------------------------------------------------------
AnalysisInit ==
    /\ credential = "set"
    /\ pc = "call"
    /\ content \in Texts
    /\ idx \in 1..Len(SYMBOLS)
    /\ InitFields

ApplyAnalysis ==
    /\ pc = "call"
    /\ LET r == run_futfw_analysis(SYMBOLS[idx], [raised |-> FALSE, content |-> content])
       IN  /\ ret' = r
           /\ analysis' = [none |-> ret'.none, dict |-> ret'.dict]
           /\ log' = log \o ret'.lines
    /\ calls' = Append(calls, idx)
    /\ pc' = "returned"
    /\ UNCHANGED << credential, idx, state, success_count, failure_count,
                    content, posts, published, post_outcome, exit_status >>

AnalysisNext == ApplyAnalysis

AnalysisSpec == AnalysisInit /\ [][AnalysisNext]_vars

\* ------------------------------------------------------------------------
\* Properties of a run
\* ------------------------------------------------------------------------
Terminal == {"AnalysisFailed", "PublishFailed", "Published"}

InState(st) == { i \in 1..Len(SYMBOLS) : state[i] = st }

\* C1: with the credential present the process exits with status 1 exactly
\* when no symbol ended Published, and with status 0 as soon as one did,
\* whatever happened to the other symbols.
C1_ExitOneIffNoSuccess ==
    (pc = "exited" /\ credential = "set") =>
        /\ success_count = Cardinality(InState("Published"))
        /\ exit_status = 1 <=> success_count = 0
        /\ exit_status = 0 <=> success_count > 0

C1_Witness ==
    /\ pc = "exited"
    /\ credential = "set"
    /\ exit_status = 0
    /\ state[1] = "AnalysisFailed"
    /\ state[2] = "PublishFailed"
    /\ state[3] = "Published"
    /\ state[4] = "AnalysisFailed"

\* a step that calls requests.post
C2_PostStep ==
    posts' # posts =>
        /\ state[idx] = "Analyzed"
        /\ state'[idx] = "Publishing"
        /\ calls[Len(calls)] = idx
        /\ ret.kind = "Record"
        /\ posts' = Append(posts, [symbol |-> idx, request |-> Request(ret.dict)])

C2_FailedStep ==
    (pc = "analyzing" /\ ret'.kind # "Record") =>
        /\ state'[idx] = "AnalysisFailed"
        /\ posts' = posts

C2_NoPostForFailed ==
    \A i \in 1..Len(SYMBOLS) :
        state[i] \in {"Pending", "Analyzing", "Analyzed", "AnalysisFailed"} =>
            \A k \in 1..Len(posts) : posts[k].symbol # i

\* C2: requests.post is called for a symbol only when run_futfw_analysis
\* has just returned a record for that symbol, and with that record as its
\* body; a symbol whose analysis failed goes to AnalysisFailed, stays
\* there, is never Publishing and has no post.
C2_PublishOnlyAnalyzed ==
    /\ [][C2_PostStep /\ C2_FailedStep]_vars
    /\ []C2_NoPostForFailed
    /\ [][\A i \in 1..Len(SYMBOLS) :
            state[i] = "AnalysisFailed" => state'[i] = "AnalysisFailed"]_vars

C2_Witness ==
    /\ pc = "publishing"
    /\ idx = 3
    /\ state[1] = "AnalysisFailed"
    /\ state[2] = "Published"
    /\ Len(posts) = 2
    /\ posts[2].request.json = ret.dict

PostsFor(i) == { k \in 1..Len(posts) : posts[k].symbol = i }

\* what the publisher prints after "Sending to dashboard...", by outcome
FailureLine(tag, outcome) ==
    IF outcome.kind = "response"
    THEN Line(tag, "Webhook error: HTTP", "", <<outcome.status_code>>)
    ELSE IF outcome.kind = "timeout"
    THEN Line(tag, "Webhook timeout after seconds", "", <<30>>)
    ELSE Line(tag, "Webhook error", "", <<>>)

\* the step in which requests.post returns or raises
C5_PublishStep ==
    pc = "publishing" =>
        LET o   == post_outcome'
            tag == posts[Len(posts)].request.json["symbol"]
        IN  /\ state'[idx] = "Published" <=>
                   (o.kind = "response" /\ o.status_code = 200)
            /\ published'[idx] = "Success" <=> state'[idx] = "Published"
            /\ state'[idx] # "Published" =>
                   /\ state'[idx] = "PublishFailed"
                   /\ log' = log \o <<FailureLine(tag, o), Rule>>
            /\ (o.kind = "response" /\ o.status_code # 200) =>
                   published'[idx] = "PublishHTTPError"
            /\ o.kind = "timeout" <=> published'[idx] = "PublishTimeoutError"
            /\ o.kind = "error" <=> published'[idx] = "PublishTransportError"
            /\ posts' = posts
            /\ Cardinality(PostsFor(idx)) = 1
            /\ posts[Len(posts)].request.timeout = 30

\* C5: send_to_webhook succeeds exactly when the response status is 200;
\* any other status (204 included) is a failure printed with that status, a
\* timeout is its own failure, any other error is a failure too, and in
\* each case requests.post was called once for the symbol and not again.
C5_StatusExactly200 == [][C5_PublishStep]_vars

C5_Witness ==
    /\ pc = "loop"
    /\ idx = 2
    /\ post_outcome = [kind |-> "response", status_code |-> 204]
    /\ state[1] = "PublishFailed"
    /\ published[1] = "PublishHTTPError"
    /\ Len(posts) = 1

SymbolSet == { SYMBOLS[i] : i \in 1..Len(SYMBOLS) }

SymbolLines == { k \in 1..Len(log) : log[k].tag \in SymbolSet \/ log[k].detail \in SymbolSet }

\* nothing has been done for any symbol
C6_Nothing ==
    credential # "set" =>
        /\ calls = <<>>
        /\ posts = <<>>
        /\ \A i \in 1..Len(SYMBOLS) : state[i] = "Pending"
        /\ SymbolLines = {}
        /\ exit_status \in {-1, 1}
        /\ pc \in {"import", "main", "exited"}
        /\ pc = "exited" <=> exit_status = 1

\* C6: without the credential (unset, or set to the empty string) the run
\* makes no completion call and no publish call, leaves every symbol
\* Pending, prints no line that names a symbol, and exits with status 1.
C6_AbortBeforeAnySymbol ==
    /\ []C6_Nothing
    /\ (credential # "set") ~> (pc = "exited" /\ exit_status = 1)

C6_Witness ==
    /\ credential = "unset"
    /\ pc = "exited"
    /\ exit_status = 1
    /\ Len(log) = 4
    /\ log[4].message = "ERROR: PERPLEXITY_API_KEY environment variable not set"

OneToN(n) == [k \in 1..n |-> k]

\* symbols before the loop position are finished, those after it untouched
C7_Sequential ==
    credential = "set" =>
        /\ idx \in 1..(Len(SYMBOLS) + 1)
        /\ \A i \in 1..Len(SYMBOLS) :
              /\ i < idx => state[i] \in Terminal
              /\ i > idx => state[i] = "Pending"
        /\ idx <= Len(SYMBOLS) =>
              state[idx] = CASE pc = "analyzing"  -> "Analyzing"
                             [] pc = "analyzed"   -> "Analyzed"
                             [] pc = "publishing" -> "Publishing"
                             [] OTHER             -> "Pending"
        /\ calls = OneToN(IF pc \in {"import", "main", "loop"}
                          THEN idx - 1
                          ELSE IF pc = "exited" THEN Len(SYMBOLS) ELSE idx)
        /\ \A i \in 1..Len(SYMBOLS) : Cardinality(PostsFor(i)) <= 1
        /\ \A k \in 1..Len(posts) : \A m \in 1..Len(posts) :
              k < m => posts[k].symbol < posts[m].symbol

C7_Completed ==
    /\ pc = "exited"
    /\ calls = OneToN(Len(SYMBOLS))
    /\ \A i \in 1..Len(SYMBOLS) : state[i] \in Terminal

\* C7: with the credential present the symbols are attempted once each, in
\* list order, one at a time, and whatever fails the run reaches its end
\* with every symbol in a terminal state.
C7_NoErrorAbortsRun ==
    /\ []C7_Sequential
    /\ (credential = "set") ~> C7_Completed

C7_Witness ==
    /\ C7_Completed
    /\ ret.kind = "ExtractionError"
    /\ state[1] = "AnalysisFailed"
    /\ published[2] = "PublishTimeoutError"
    /\ published[3] = "PublishTransportError"
    /\ state[4] = "AnalysisFailed"

\* the counters agree with the per-symbol states
C9_Counts ==
    credential = "set" =>
        /\ success_count = Cardinality(InState("Published"))
        /\ failure_count = Cardinality(InState("AnalysisFailed")
                                       \cup InState("PublishFailed"))
        /\ pc = "loop" => success_count + failure_count = idx - 1
        /\ pc = "exited" =>
              /\ success_count + failure_count = Len(SYMBOLS)
              /\ log[Len(log) - 1].nums =
                     <<success_count, Len(SYMBOLS), failure_count, Len(SYMBOLS)>>

\* moving to the next symbol adds one to exactly one counter
C9_CountStep ==
    idx' # idx =>
        \/ /\ success_count' = success_count + 1
           /\ failure_count' = failure_count
        \/ /\ success_count' = success_count
           /\ failure_count' = failure_count + 1

\* C9: the two counters count the symbols that ended Published and the
\* symbols that ended AnalysisFailed or PublishFailed; between iterations
\* they add up to the number of symbols processed, each step of the loop
\* adds one to one of them, and the summary reports counts that add up to
\* the length of the list.
C9_CountersTally == []C9_Counts /\ [][C9_CountStep]_vars

C9_Witness ==
    /\ pc = "loop"
    /\ idx = 4
    /\ success_count = 1
    /\ failure_count = 2
    /\ state[1] = "PublishFailed"
    /\ state[2] = "Published"
    /\ state[3] = "AnalysisFailed"

\* ------------------------------------------------------------------------
\* Properties of the requester
\* ------------------------------------------------------------------------
NineKeys ==
    { "symbol", "trend_1h", "trend_15m", "current_price", "entry_price",
      "stop_loss", "take_profit", "support_levels", "resistance_levels" }

\* C3: run_futfw_analysis returns either None or a dict that has all nine
\* required keys; a dict that lacks one is never returned, and a dict that
\* lacks only entry_signal is returned.
C3_RecordHasNineKeys ==
    pc = "returned" =>
        /\ analysis.none <=> ret.kind # "Record"
        /\ analysis.none => analysis.dict = EmptyDict
        /\ ~analysis.none => NineKeys \subseteq DOMAIN analysis.dict
        /\ ret.kind = "ValidationError" =>
              /\ ~(NineKeys \subseteq DOMAIN json_loads(ret.json_str).dict)
              /\ log[Len(log)].message = "Missing required field"
              /\ log[Len(log)].detail \in NineKeys
              /\ log[Len(log)].detail \notin DOMAIN json_loads(ret.json_str).dict
        /\ content = <<"{", "M_nosig", "}">> =>
              /\ ret.kind = "Record"
              /\ DOMAIN analysis.dict = NineKeys
        /\ content = <<"{", "M_notp", "}">> =>
              /\ ret.kind = "ValidationError"
              /\ log[Len(log)].detail = "take_profit"

C3_Witness ==
    /\ pc = "returned"
    /\ content = FENCE_JSON \o <<"{", "M_nosig", "}">> \o FENCE
    /\ ~analysis.none
    /\ "entry_signal" \notin DOMAIN analysis.dict

\* C4: whenever run_futfw_analysis returns a record for the requested
\* symbol, the record's symbol field is the requested symbol.
C4_SymbolRoundTrips ==
    (pc = "returned" /\ ~analysis.none) =>
        analysis.dict["symbol"] = SYMBOLS[idx]

\* 1-based positions at which sub occurs in t
Positions(t, sub) ==
    { k \in 1..Len(t) : /\ k + Len(sub) - 1 <= Len(t)
                        /\ SubSeq(t, k, k + Len(sub) - 1) = sub }

\* the opening fence of t: json-tagged if there is one, else the first fence
HasOpening(t) == Positions(t, FENCE) # {}

\* 1-based position of the first character after the opening fence
BodyStart(t) ==
    IF Positions(t, FENCE_JSON) # {}
    THEN SetMin(Positions(t, FENCE_JSON)) + Len(FENCE_JSON)
    ELSE SetMin(Positions(t, FENCE)) + Len(FENCE)

Closers(t) == { k \in Positions(t, FENCE) : k >= BodyStart(t) }

\* the extraction procedure as specified: the content between the opening
\* fence and the next closing fence (all that follows the opening fence if
\* nothing closes it), else the text verbatim
Narrowed(t) ==
    IF ~HasOpening(t) THEN t
    ELSE IF Closers(t) = {} THEN SubSeq(t, BodyStart(t), Len(t))
    ELSE SubSeq(t, BodyStart(t), SetMin(Closers(t)) - 1)

Opens(n) == { k \in 1..Len(n) : n[k] = "{" }

Closes(n) == { k \in 1..Len(n) : n[k] = "}" }

Candidate(n) == SubSeq(n, SetMin(Opens(n)), SetMax(Closes(n)))

\* C8: the payload run_futfw_analysis parses is the span from the first
\* opening brace to the last closing brace of the narrowed text, and
\* ExtractionError is returned exactly when the narrowed text lacks an
\* opening or a closing brace.
C8_CandidateIsSpecified ==
    pc = "returned" =>
        LET n == Narrowed(content)
        IN  /\ ret.kind = "ExtractionError" <=> (Opens(n) = {} \/ Closes(n) = {})
            /\ ret.kind # "ExtractionError" => ret.json_str = Candidate(n)

ValidObjects == { <<"{", "M_full", "}">>, <<"{", "M_nosig", "}">> }

\* C10: when nothing closes the opening fence, the text kept is what follows
\* the opening fence without the last character of the response; an
\* unclosed fence followed by a complete valid object therefore yields None.
C10_UnclosedFenceDropsLast ==
    LET t == Strip(content)
    IN  (pc = "returned" /\ HasOpening(t) /\ Closers(t) = {}) =>
            /\ ret.analysis_text = Strip(SubSeq(t, BodyStart(t), Len(t) - 1))
            /\ Strip(SubSeq(t, BodyStart(t), Len(t))) \in ValidObjects =>
                  analysis.none

C10_Witness ==
    /\ pc = "returned"
    /\ content = FENCE_JSON \o <<" ", "{", "M_full", "}">>
    /\ ret.analysis_text = <<"{", "M_full">>
    /\ analysis.none

====
